---- MODULE Spec2Model ----
(***************************************************************************)
(* A model of the request helpers (parseRequest, getJsonBody,             *)
(* setWebsiteDate, getQueryFilters) and of the webhook console logger.    *)
(*                                                                         *)
(* Text is a sequence of character codes.  The body helpers exist in two  *)
(* revisions: src/src/lib/request.ts ("base") and src/unnamed/part_001    *)
(* ("scf", which adds the empty-clone, .json() and base64 fallbacks).     *)
(***************************************************************************)
EXTENDS Integers, Sequences, FiniteSets, TLC

(***************************************************************************)
(* Text helpers                                                            *)
(***************************************************************************)

\* The character at position i, or -1 past either end.
At(s, i) == IF i \in 1..Len(s) THEN s[i] ELSE -1

\* The characters JSON.parse skips between tokens: space, \t, \n, \r.
JsonWs == {32, 9, 10, 13}

\* The ASCII characters String.prototype.trim removes.
TrimWs == {9, 10, 11, 12, 13, 32}

JsonDigits == 48..57

RECURSIVE SkipWs(_, _)
SkipWs(s, i) == IF At(s, i) \in JsonWs THEN SkipWs(s, i + 1) ELSE i

RECURSIVE SkipTrimWs(_, _)
SkipTrimWs(s, i) == IF At(s, i) \in TrimWs THEN SkipTrimWs(s, i + 1) ELSE i

\* decoded.trim().startsWith(c): the first character that is not white space.
TrimStartsWith(s, c) == At(s, SkipTrimWs(s, 1)) = c

(***************************************************************************)
(* Buffer.from(text, 'base64').toString('utf-8')                           *)
(***************************************************************************)

\* The 6-bit value of a base64 (or base64url) character, -1 for any other.
B64Val(c) ==
  IF c \in 65..90 THEN c - 65
  ELSE IF c \in 97..122 THEN c - 71
  ELSE IF c \in 48..57 THEN c + 4
  ELSE IF c \in {43, 45} THEN 62
  ELSE IF c \in {47, 95} THEN 63
  ELSE -1

\* The sextets of the input: decoding stops at the first '=', and a character
\* outside the alphabet is skipped.
RECURSIVE B64Sextets(_, _)
B64Sextets(s, i) ==
  IF i > Len(s) \/ s[i] = 61 THEN <<>>
  ELSE IF B64Val(s[i]) < 0 THEN B64Sextets(s, i + 1)
  ELSE <<B64Val(s[i])>> \o B64Sextets(s, i + 1)

\* Four sextets make three bytes; a tail of two makes one byte, of three two.
RECURSIVE B64Bytes(_)
B64Bytes(q) ==
  IF Len(q) < 2 THEN <<>>
  ELSE LET b1 == q[1] * 4 + (q[2] \div 16)
       IN  IF Len(q) = 2 THEN <<b1>>
           ELSE LET b2 == (q[2] % 16) * 16 + (q[3] \div 4)
                IN  IF Len(q) = 3 THEN <<b1, b2>>
                    ELSE <<b1, b2, (q[3] % 4) * 64 + q[4]>>
                           \o B64Bytes(SubSeq(q, 5, Len(q)))

\* toString('utf-8'): an ASCII byte is its character; a byte of 128 or more is
\* shown as U+FFFD (no body of the model holds a well-formed multi-byte
\* sequence).
Utf8Char(b) == IF b < 128 THEN b ELSE 65533

Base64Decode(s) ==
  LET bytes == B64Bytes(B64Sextets(s, 1))
  IN  [i \in 1..Len(bytes) |-> Utf8Char(bytes[i])]

(***************************************************************************)
(* JSON.parse                                                              *)
(* Each Parse operator takes the position of the first character of the    *)
(* item and returns the position after it, or 0 for a syntax error.        *)
(***************************************************************************)

RECURSIVE SkipDigits(_, _)
SkipDigits(s, i) == IF At(s, i) \in JsonDigits THEN SkipDigits(s, i + 1) ELSE i

\* -? (0 | [1-9][0-9]*) (. [0-9]+)? ([eE] [+-]? [0-9]+)?
ParseNumber(s, i) ==
  LET j0 == IF At(s, i) = 45 THEN i + 1 ELSE i
      j1 == IF At(s, j0) = 48 THEN j0 + 1
            ELSE IF At(s, j0) \in 49..57 THEN SkipDigits(s, j0)
            ELSE 0
      j2 == IF j1 = 0 THEN 0
            ELSE IF At(s, j1) # 46 THEN j1
            ELSE IF At(s, j1 + 1) \in JsonDigits THEN SkipDigits(s, j1 + 1)
            ELSE 0
      k  == IF At(s, j2 + 1) \in {43, 45} THEN j2 + 2 ELSE j2 + 1
  IN  IF j2 = 0 THEN 0
      ELSE IF At(s, j2) \notin {101, 69} THEN j2
      ELSE IF At(s, k) \in JsonDigits THEN SkipDigits(s, k)
      ELSE 0

HexDigits == (48..57) \cup (65..70) \cup (97..102)

\* The characters after the opening quote, up to and including the closing one.
RECURSIVE ParseStringBody(_, _)
ParseStringBody(s, j) ==
  LET c == At(s, j)
      e == At(s, j + 1)
  IN  IF c = -1 \/ c < 32 THEN 0
      ELSE IF c = 34 THEN j + 1
      ELSE IF c # 92 THEN ParseStringBody(s, j + 1)
      ELSE IF e \in {34, 92, 47, 98, 102, 110, 114, 116}
             THEN ParseStringBody(s, j + 2)
      ELSE IF e = 117 /\ \A d \in 2..5 : At(s, j + d) \in HexDigits
             THEN ParseStringBody(s, j + 6)
      ELSE 0

ParseString(s, i) == IF At(s, i) = 34 THEN ParseStringBody(s, i + 1) ELSE 0

\* true, false, null
ParseLiteral(s, i) ==
  LET Match(w) == \A d \in 1..Len(w) : At(s, i + d - 1) = w[d]
  IN  IF Match(<<116, 114, 117, 101>>) THEN i + 4
      ELSE IF Match(<<102, 97, 108, 115, 101>>) THEN i + 5
      ELSE IF Match(<<110, 117, 108, 108>>) THEN i + 4
      ELSE 0

RECURSIVE ParseValue(_, _)
RECURSIVE ParseElements(_, _)
RECURSIVE ParseMembers(_, _)

\* value (, value)* ]
ParseElements(s, j) ==
  LET v == ParseValue(s, j)
      k == SkipWs(s, v)
  IN  IF v = 0 THEN 0
      ELSE IF At(s, k) = 44 THEN ParseElements(s, SkipWs(s, k + 1))
      ELSE IF At(s, k) = 93 THEN k + 1
      ELSE 0

\* string : value (, string : value)* }
ParseMembers(s, j) ==
  LET k == ParseString(s, j)
      c == SkipWs(s, k)
      v == IF k = 0 \/ At(s, c) # 58 THEN 0 ELSE ParseValue(s, SkipWs(s, c + 1))
      e == SkipWs(s, v)
  IN  IF v = 0 THEN 0
      ELSE IF At(s, e) = 44 THEN ParseMembers(s, SkipWs(s, e + 1))
      ELSE IF At(s, e) = 125 THEN e + 1
      ELSE 0

ParseValue(s, i) ==
  LET c == At(s, i)
      j == SkipWs(s, i + 1)
  IN  IF c = 123 THEN (IF At(s, j) = 125 THEN j + 1 ELSE ParseMembers(s, j))
      ELSE IF c = 91 THEN (IF At(s, j) = 93 THEN j + 1 ELSE ParseElements(s, j))
      ELSE IF c = 34 THEN ParseString(s, i)
      ELSE IF c = 45 \/ c \in JsonDigits THEN ParseNumber(s, i)
      ELSE ParseLiteral(s, i)

\* Whether JSON.parse(s) returns (TRUE) or throws a SyntaxError (FALSE).
JsonValid(s) ==
  LET v == ParseValue(s, SkipWs(s, 1))
  IN  v # 0 /\ SkipWs(s, v) = Len(s) + 1

\* The parsed value, written as its text without the white space between
\* tokens: two texts parse to the same value when these agree.
RECURSIVE JsonCanon(_, _, _)
JsonCanon(s, i, inString) ==
  IF i > Len(s) THEN <<>>
  ELSE IF inString /\ s[i] = 92
         THEN <<s[i], At(s, i + 1)>> \o JsonCanon(s, i + 2, TRUE)
  ELSE IF s[i] = 34 THEN <<s[i]>> \o JsonCanon(s, i + 1, ~inString)
  ELSE IF ~inString /\ s[i] \in JsonWs THEN JsonCanon(s, i + 1, FALSE)
  ELSE <<s[i]>> \o JsonCanon(s, i + 1, inString)

Undefined == [kind |-> "undefined", val |-> <<>>]

JsonValue(v) == [kind |-> "value", val |-> v]

\* JSON.parse(s): the value, or "throws".
JsonParse(s) ==
  IF JsonValid(s) THEN JsonValue(JsonCanon(s, 1, FALSE))
  ELSE [kind |-> "throws", val |-> <<>>]

(***************************************************************************)
(* The platform's side: the body on the wire                               *)
(***************************************************************************)

B64Alphabet ==
  <<65, 66, 67, 68, 69, 70, 71, 72, 73, 74, 75, 76, 77, 78, 79, 80, 81, 82,
    83, 84, 85, 86, 87, 88, 89, 90, 97, 98, 99, 100, 101, 102, 103, 104, 105,
    106, 107, 108, 109, 110, 111, 112, 113, 114, 115, 116, 117, 118, 119, 120,
    121, 122, 48, 49, 50, 51, 52, 53, 54, 55, 56, 57, 43, 47>>

\* The base64 text the platform hands over for a body it marks as encoded
\* (RFC 4648, padded).
RECURSIVE Base64Encode(_)
Base64Encode(b) ==
  IF Len(b) = 0 THEN <<>>
  ELSE LET c1 == B64Alphabet[(b[1] \div 4) + 1]
           r1 == (b[1] % 4) * 16
       IN  IF Len(b) = 1 THEN <<c1, B64Alphabet[r1 + 1], 61, 61>>
           ELSE LET c2 == B64Alphabet[r1 + (b[2] \div 16) + 1]
                    r2 == (b[2] % 16) * 4
                IN  IF Len(b) = 2 THEN <<c1, c2, B64Alphabet[r2 + 1], 61>>
                    ELSE <<c1, c2, B64Alphabet[r2 + (b[3] \div 64) + 1],
                           B64Alphabet[(b[3] % 64) + 1]>>
                           \o Base64Encode(SubSeq(b, 4, Len(b)))

\* JSON objects and arrays a client sends: {}  {"a":1}  [1]  and " [1]".
JsonContainers ==
  { <<123, 125>>, <<123, 34, 97, 34, 58, 49, 125>>, <<91, 49, 93>>,
    <<32, 91, 49, 93>> }

\* Other bodies: the number 1, the JSON string "e30=", the texts xyz and {.
OtherBodies ==
  { <<49>>, <<34, 101, 51, 48, 61, 34>>, <<120, 121, 122>>, <<123>> }

EncodedBodies == { Base64Encode(b) : b \in JsonContainers \cup {<<49>>} }

\* A body the platform encoded twice.
DoubleEncodedBodies == { Base64Encode(Base64Encode(<<123, 125>>)) }

Bodies ==
  JsonContainers \cup OtherBodies \cup EncodedBodies \cup DoubleEncodedBodies

\* The values of the x-scf-is-base64-encoded header.
HeaderValues == {"absent", "true", "TRUE", "false"}

\* What request.json() gives when it does not throw: null or {"a":1}.
JsonReturns == { <<110, 117, 108, 108>>, <<123, 34, 97, 34, 58, 49, 125>> }

\* if (json): null, false, 0 and "" are falsy.
Truthy(v) ==
  v \notin { <<110, 117, 108, 108>>, <<102, 97, 108, 115, 101>>, <<48>>,
             <<34, 34>> }

(***************************************************************************)
(* getJsonBody: from the text read to the value returned                   *)
(***************************************************************************)

\* src/src/lib/request.ts: JSON.parse(text), undefined when it throws.
ParseBodyBase(text) ==
  LET p == JsonParse(text)
  IN  [result  |-> IF p.kind = "value" THEN p ELSE Undefined,
       parsed  |-> text,
       decodes |-> 0]

\* The header test of part_001.
IsBase64Header(h) == h = "true" \/ h = "TRUE"

\* The looks-like-JSON test made without trim().
Base64Fallback_NoTrim(text) ==
  LET decoded == Base64Decode(text)
      p       == JsonParse(decoded)
  IN  IF At(decoded, 1) = 123 \/ At(decoded, 1) = 91
        THEN (IF p.kind = "value" THEN p ELSE Undefined)
        ELSE Undefined

\* The fallback of part_001 when JSON.parse(text) threw: decode anyway, and
\* parse the decoded text if it looks like an object or an array.
Base64Fallback(text) ==
  LET decoded == Base64Decode(text)
      p       == JsonParse(decoded)
  IN  IF TrimStartsWith(decoded, 123) \/ TrimStartsWith(decoded, 91)
        THEN (IF p.kind = "value" THEN p ELSE Undefined)
        ELSE Undefined

\* part_001: decode when the header says so, parse, fall back on a failure.
\* parsed is the text handed to the first JSON.parse, decodes the number of
\* base64 decodings made.
ParseBodyScf(header, text) ==
  LET t1 == IF IsBase64Header(header) THEN Base64Decode(text) ELSE text
      d1 == IF IsBase64Header(header) THEN 1 ELSE 0
      p1 == JsonParse(t1)
  IN  IF p1.kind = "value"
        THEN [result |-> p1, parsed |-> t1, decodes |-> d1]
        ELSE [result |-> Base64Fallback(t1), parsed |-> t1, decodes |-> d1 + 1]

\* The tail of getJsonBody, from the "Raw Body Text" log line on.
ParseBody(variant, header, text) ==
  IF text = <<>> THEN [result |-> Undefined, parsed |-> <<>>, decodes |-> 0]
  ELSE IF variant = "scf" THEN ParseBodyScf(header, text)
  ELSE ParseBodyBase(text)

(***************************************************************************)
(* State                                                                   *)
(***************************************************************************)

VARIABLES
  variant,    \* "base" (src/lib/request.ts) or "scf" (part_001)
  pc,         \* where the parseRequest call stands
  wire,       \* the body the client sent
  hdr,        \* [throws: iterating request.headers throws, b64: header value]
  method,     \* request.method
  schema,     \* whether a schema was passed
  skipAuth,   \* options?.skipAuth: "none" (no options), "false" or "true"
  req,        \* the request getJsonBody reads first: "orig" or "clone"
  text,       \* let text (<<>> for undefined and for '')
  body,       \* what getJsonBody resolved to, and the parse bookkeeping
  bodyUsed,   \* whether a read of the original request's body was started
  events,     \* the calls made on collaborators, in order
  valid,      \* result.success of schema.safeParse: "unknown", "yes" or "no"
  error,      \* "none", "badRequest" or "unauthorized"
  auth        \* "null" or "session"

reqVars ==
  <<variant, pc, wire, hdr, method, schema, skipAuth, req, text, body,
    bodyUsed, events, valid, error, auth>>

\* The webhook logger (part_000).
VARIABLES
  trail,       \* what was printed and what was posted, in order
  pending,     \* the fetch promises not yet settled: positions in trail
  rejections,  \* unhandled rejections waiting for the process handler
  calls,       \* console calls made by the application so far
  appErrors,   \* uncaught exceptions and rejections the application raised
  escaped      \* whether a patched console method threw into its caller

logVars == <<trail, pending, rejections, calls, appErrors, escaped>>

\* getQueryFilters.
VARIABLES
  qpc,        \* where the getQueryFilters call stands
  params,     \* the query parameters of the call
  websiteId,  \* "" when the argument is left out
  db,         \* what fetchWebsite and getWebsiteSegment find
  range0,     \* what getRequestDateRange returned
  dateRange,  \* the dateRange object, which setWebsiteDate mutates
  filters,    \* the filters object
  segCalls,   \* the ids getWebsiteSegment was called with, in order
  out         \* the object returned

qfVars ==
  <<qpc, params, websiteId, db, range0, dateRange, filters, segCalls, out>>

vars == <<reqVars, logVars, qfVars>>

NoBody == [result |-> Undefined, parsed |-> <<>>, decodes |-> 0]

\* What an awaited text() does: throws, resolves to '' or to the wire body.
TextOutcomes == {"throws", "empty", "body"}

Event(on, op, res) == [on |-> on, op |-> op, res |-> res]

InitRequest ==
  /\ variant \in {"base", "scf"}
  /\ pc = "idle"
  /\ wire = <<>>
  /\ hdr = [throws |-> FALSE, b64 |-> "absent"]
  /\ method = "GET"
  /\ schema = FALSE
  /\ skipAuth = "none"
  /\ req = "orig"
  /\ text = <<>>
  /\ body = NoBody
  /\ bodyUsed = FALSE
  /\ events = <<>>
  /\ valid = "unknown"
  /\ error = "none"
  /\ auth = "null"

(***************************************************************************)
(* getJsonBody                                                             *)
(***************************************************************************)

\* The outer catch left out: the error leaves getJsonBody.
OuterCatch_Rethrow == [pc |-> "bodyRejected", body |-> NoBody]

\* The outer catch of getJsonBody: log, return undefined.
OuterCatch == [pc |-> "schema", body |-> NoBody]

\* The original read after every clone read, whatever the clone gave.
AfterText_AlwaysReadOriginal(v, r, t) ==
  IF v = "scf" /\ r = "clone" THEN "cloneEmpty"
  ELSE IF v = "scf" /\ t = <<>> THEN "json"
  ELSE "parse"

\* After the first read (and its catch): the base revision goes on to parse;
\* part_001 reads the original when the clone gave nothing, and tries
\* request.json() when the original itself gave nothing.
AfterText(v, r, t) ==
  IF v = "scf" /\ t = <<>>
    THEN (IF r = "clone" THEN "cloneEmpty" ELSE "json")
    ELSE "parse"

\* The request the catch of the first read falls back to: the original, when
\* the text came from a clone.
TextCatch(v, r) == IF r = "clone" THEN "textFallback" ELSE AfterText(v, r, <<>>)

\* parseRequest up to its first await, and getJsonBody's header lines.
ParseRequestCall ==
  /\ pc = "idle"
  /\ \E w \in Bodies, th \in BOOLEAN, h \in HeaderValues,
        m \in {"GET", "POST"}, sc \in BOOLEAN, sk \in {"none", "false", "true"} :
       /\ wire' = w
       /\ hdr' = [throws |-> th, b64 |-> h]
       /\ method' = m
       /\ schema' = sc
       /\ skipAuth' = sk
       /\ events' = Append(events, Event("orig", "headers", IF th THEN "throws" ELSE "ok"))
       /\ pc' = IF th THEN OuterCatch.pc ELSE "clone"
       /\ body' = IF th THEN OuterCatch.body ELSE body
  /\ UNCHANGED <<variant, req, text, bodyUsed, valid, error, auth>>
  /\ UNCHANGED <<logVars, qfVars>>

\* req = request.clone(), or the original when clone() throws.
Clone ==
  /\ pc = "clone"
  /\ \E o \in {"throws", "ok"} :
       /\ req' = IF o = "ok" THEN "clone" ELSE "orig"
       /\ events' = Append(events, Event("orig", "clone", o))
  /\ pc' = "text"
  /\ UNCHANGED <<variant, wire, hdr, method, schema, skipAuth, text, body,
                 bodyUsed, valid, error, auth>>
  /\ UNCHANGED <<logVars, qfVars>>

\* text = await req.text()
ReadText ==
  /\ pc = "text"
  /\ \E o \in TextOutcomes :
       /\ events' = Append(events, Event(req, "text", o))
       /\ text' = IF o = "body" THEN wire ELSE <<>>
       /\ pc' = IF o = "throws" THEN TextCatch(variant, req)
                ELSE AfterText(variant, req, text')
  /\ bodyUsed' = (bodyUsed \/ req = "orig")
  /\ UNCHANGED <<variant, wire, hdr, method, schema, skipAuth, req, body,
                 valid, error, auth>>
  /\ UNCHANGED <<logVars, qfVars>>

\* In the catch of the first read: text = await request.text()
ReadOriginalAfterThrow ==
  /\ pc = "textFallback"
  /\ \E o \in TextOutcomes :
       /\ events' = Append(events, Event("orig", "text", o))
       /\ text' = IF o = "body" THEN wire ELSE <<>>
       /\ pc' = AfterText(variant, req, text')
  /\ bodyUsed' = TRUE
  /\ UNCHANGED <<variant, wire, hdr, method, schema, skipAuth, req, body,
                 valid, error, auth>>
  /\ UNCHANGED <<logVars, qfVars>>

\* part_001: the clone gave no text: originalText = await request.text(),
\* kept when it is not empty.
ReadOriginalAfterEmpty ==
  /\ pc = "cloneEmpty"
  /\ \E o \in TextOutcomes :
       /\ events' = Append(events, Event("orig", "text", o))
       /\ text' = IF o = "body" THEN wire ELSE text
  /\ bodyUsed' = TRUE
  /\ pc' = "parse"
  /\ UNCHANGED <<variant, wire, hdr, method, schema, skipAuth, req, body,
                 valid, error, auth>>
  /\ UNCHANGED <<logVars, qfVars>>

\* part_001: the original gave no text: json = await request.json(), returned
\* when truthy.
ReadJson ==
  /\ pc = "json"
  /\ \/ /\ events' = Append(events, Event("orig", "json", "throws"))
        /\ pc' = "parse"
        /\ body' = body
     \/ \E v \in JsonReturns :
          /\ events' = Append(events, Event("orig", "json", "value"))
          /\ pc' = IF Truthy(v) THEN "schema" ELSE "parse"
          /\ body' = IF Truthy(v)
                       THEN [result |-> JsonValue(v), parsed |-> <<>>, decodes |-> 0]
                       ELSE body
  /\ bodyUsed' = TRUE
  /\ UNCHANGED <<variant, wire, hdr, method, schema, skipAuth, req, text,
                 valid, error, auth>>
  /\ UNCHANGED <<logVars, qfVars>>

\* The rest of getJsonBody: no text gives undefined, else decode and parse.
ParseText ==
  /\ pc = "parse"
  /\ body' = ParseBody(variant, hdr.b64, text)
  /\ pc' = "schema"
  /\ UNCHANGED <<variant, wire, hdr, method, schema, skipAuth, req, text,
                 bodyUsed, events, valid, error, auth>>
  /\ UNCHANGED <<logVars, qfVars>>

(***************************************************************************)
(* parseRequest, after the body                                            *)
(***************************************************************************)

\* The test of error left out: if (!options?.skipAuth)
AuthNeeded_IgnoresError(sk, err) == sk # "true"

\* if (!options?.skipAuth && !error)
AuthNeeded(sk, err) == sk # "true" /\ err = "none"

\* The falsy auth not turned into an error.
AuthError_Never(o, err) == err

\* if (!auth) error = () => unauthorized()
AuthError(o, err) == IF o = "null" THEN "unauthorized" ELSE err

\* if (schema) { result = schema.safeParse(...); ... }
ValidateSchema ==
  /\ pc = "schema"
  /\ IF schema
       THEN \E ok \in BOOLEAN :
              /\ valid' = IF ok THEN "yes" ELSE "no"
              /\ error' = IF ok THEN "none" ELSE "badRequest"
              /\ events' = Append(events, Event("schema", "safeParse",
                                                IF ok THEN "ok" ELSE "fail"))
       ELSE UNCHANGED <<valid, error, events>>
  /\ pc' = IF AuthNeeded(skipAuth, error') THEN "auth" ELSE "return"
  /\ UNCHANGED <<variant, wire, hdr, method, schema, skipAuth, req, text,
                 body, bodyUsed, auth>>
  /\ UNCHANGED <<logVars, qfVars>>

\* auth = await checkAuth(request); a falsy auth is the unauthorized error.
\* checkAuth may also throw, and parseRequest then rejects.
CheckAuth ==
  /\ pc = "auth"
  /\ \E o \in {"null", "session", "throws"} :
       /\ events' = Append(events, Event("auth", "checkAuth", o))
       /\ auth' = IF o = "session" THEN "session" ELSE "null"
       /\ error' = AuthError(o, error)
       /\ pc' = IF o = "throws" THEN "rejected" ELSE "return"
  /\ UNCHANGED <<variant, wire, hdr, method, schema, skipAuth, req, text,
                 body, bodyUsed, valid>>
  /\ UNCHANGED <<logVars, qfVars>>

\* return { url, query, body, auth, error }
Return ==
  /\ pc = "return"
  /\ pc' = "done"
  /\ UNCHANGED <<variant, wire, hdr, method, schema, skipAuth, req, text,
                 body, bodyUsed, events, valid, error, auth>>
  /\ UNCHANGED <<logVars, qfVars>>

NextRequest ==
  \/ ParseRequestCall
  \/ Clone
  \/ ReadText
  \/ ReadOriginalAfterThrow
  \/ ReadOriginalAfterEmpty
  \/ ReadJson
  \/ ParseText
  \/ ValidateSchema
  \/ CheckAuth
  \/ Return

(***************************************************************************)
(* The webhook logger (part_000)                                           *)
(***************************************************************************)

\* What the application does in a run: console calls, uncaught exceptions and
\* unhandled rejections, this many in all.
MaxEvents == 2

\* The most lines and requests a run is followed for.
MaxTrail == 3 * MaxEvents + 3

\* The console methods the module replaces.
PatchedLevels == {"log", "error", "warn", "info"}

\* Argument lists: a string, an object (a circular one included: safeStringify
\* returns a placeholder), and one whose conversion throws outside
\* safeStringify (a function whose toString throws, an Error whose toJSON
\* throws).
ConsoleArgs == {"text", "object", "hostile"}

\* args.map(...) and JSON.stringify({level, timestamp, messages}) throw.
PrepareThrows(args) == args = "hostile"

\* A line written by an original console method or by process.stdout.write.
Printed(via, args, origin) ==
  [kind |-> "print", level |-> via, args |-> args, origin |-> origin]

\* A POST to WEBHOOK_URL.
Posted(level, args, origin) ==
  [kind |-> "post", level |-> level, args |-> args, origin |-> origin]

\* sendToWebhook(level, args): what it adds to the trail and whether it threw.
\* Its try/catch turns a failure to prepare the payload, or a fetch that
\* throws, into one line on stdout.
SendToWebhook(level, args, origin, fetchThrows) ==
  IF PrepareThrows(args) \/ fetchThrows
    THEN [added |-> <<Printed("stdout", "prepare-failed", origin)>>, threw |-> FALSE]
    ELSE [added |-> <<Posted(level, args, origin)>>, threw |-> FALSE]

\* Every override sending under the level of console.log.
ConsoleOverride_WrongLevel(level, args, origin, fetchThrows) ==
  LET sent == SendToWebhook("log", args, origin, fetchThrows)
  IN  [added |-> <<Printed(level, args, origin)>> \o sent.added,
       threw |-> sent.threw]

\* console.<level> = (...args) => { original.apply(console, args);
\*                                  sendToWebhook(level, args) }
ConsoleOverride(level, args, origin, fetchThrows) ==
  LET sent == SendToWebhook(level, args, origin, fetchThrows)
  IN  [added |-> <<Printed(level, args, origin)>> \o sent.added,
       threw |-> sent.threw]

\* The fetch promise left without a .catch.
OnFetchRejected_NoCatch(origin) == [added |-> <<>>, unhandled |-> TRUE]

\* The .catch on the fetch promise: one line on stdout, and the promise chain
\* ends handled.
OnFetchRejected(origin) ==
  [added |-> <<Printed("stdout", "send-failed", origin)>>, unhandled |-> FALSE]

\* The positions of trail' that hold a request just added.
NewPosts(old, added) ==
  { Len(old) + i : i \in { j \in 1..Len(added) : added[j].kind = "post" } }

\* The state once part_000 has run: the methods are replaced and the
\* "Logger initialized" line went out through originalLog.
InitLogger ==
  /\ trail = <<Printed("log", "logger-initialized", 0)>>
  /\ pending = {}
  /\ rejections = <<>>
  /\ calls = 0
  /\ appErrors = 0
  /\ escaped = FALSE

\* The application calls console.log, .error, .warn or .info.
ConsoleCall ==
  /\ calls + appErrors < MaxEvents
  /\ Len(trail) < MaxTrail
  /\ \E level \in PatchedLevels, args \in ConsoleArgs, fetchThrows \in BOOLEAN :
       LET r == ConsoleOverride(level, args, calls + 1, fetchThrows)
       IN  /\ trail' = trail \o r.added
           /\ pending' = pending \cup NewPosts(trail, r.added)
           /\ escaped' = (escaped \/ r.threw)
  /\ calls' = calls + 1
  /\ UNCHANGED <<rejections, appErrors>>
  /\ UNCHANGED <<reqVars, qfVars>>

\* A fetch promise settles: fulfilled, or rejected into its .catch.
FetchSettles ==
  /\ \E p \in pending :
       /\ pending' = pending \ {p}
       /\ \/ UNCHANGED <<trail, rejections>>
          \/ LET r == OnFetchRejected(trail[p].origin)
             IN  /\ trail' = trail \o r.added
                 /\ rejections' = IF r.unhandled
                                    THEN Append(rejections, trail[p].origin)
                                    ELSE rejections
       /\ UNCHANGED <<calls, appErrors, escaped>>
  /\ UNCHANGED <<reqVars, qfVars>>

\* A promise of the application is rejected with no handler.
AppRejection ==
  /\ calls + appErrors < MaxEvents
  /\ appErrors' = appErrors + 1
  /\ rejections' = Append(rejections, 0)
  /\ UNCHANGED <<trail, pending, calls, escaped>>
  /\ UNCHANGED <<reqVars, qfVars>>

\* process.on('unhandledRejection'): originalError, then sendToWebhook.
UnhandledRejection ==
  /\ rejections # <<>>
  /\ Len(trail) < MaxTrail
  /\ \E fetchThrows \in BOOLEAN :
       LET origin == Head(rejections)
           sent == SendToWebhook("unhandledRejection", "reason", origin, fetchThrows)
           added == <<Printed("error", "Unhandled Rejection: reason", origin)>>
                      \o sent.added
       IN  /\ trail' = trail \o added
           /\ pending' = pending \cup NewPosts(trail, added)
  /\ rejections' = Tail(rejections)
  /\ UNCHANGED <<calls, appErrors, escaped>>
  /\ UNCHANGED <<reqVars, qfVars>>

\* process.on('uncaughtException'): originalError, then sendToWebhook.
UncaughtException ==
  /\ calls + appErrors < MaxEvents
  /\ appErrors' = appErrors + 1
  /\ \E fetchThrows \in BOOLEAN :
       LET sent == SendToWebhook("uncaughtException", "err", 0, fetchThrows)
           added == <<Printed("error", "Uncaught Exception: err", 0)>> \o sent.added
       IN  /\ trail' = trail \o added
           /\ pending' = pending \cup NewPosts(trail, added)
  /\ UNCHANGED <<rejections, calls, escaped>>
  /\ UNCHANGED <<reqVars, qfVars>>

NextLogger ==
  \/ ConsoleCall
  \/ FetchSettles
  \/ AppRejection
  \/ UnhandledRejection
  \/ UncaughtException

(***************************************************************************)
(* getQueryFilters and its helpers                                         *)
(***************************************************************************)

\* Timestamps run from 0 to MaxTime.
MaxTime == 2

Times == 0..MaxTime

\* A property value: an operator (or a tag) and a number.
Val(op, v) == [op |-> op, v |-> v]

\* A property that is undefined.
Undef == Val("undefined", 0)

\* Keys of FILTER_COLUMNS.
FilterColumns == {"path", "country"}

\* No website row, or a row with no resetAt.
NoReset == -1

\* lib/date maxDate: the later of two dates.
MaxDate(a, b) == IF a >= b THEN a ELSE b

\* lib/params filtersArrayToObject: one key per filter name, holding the
\* operator and the value; a later filter of the same name replaces an
\* earlier one.
RECURSIVE FiltersArrayToObject(_)
FiltersArrayToObject(arr) ==
  IF arr = <<>> THEN <<>>
  ELSE LET f == arr[Len(arr)]
       IN  (f.name :> Val(f.operator, f.value))
             @@ FiltersArrayToObject(SubSeq(arr, 1, Len(arr) - 1))

\* Object.assign(target, source), and { ...target, ...source }.
ObjectAssign(target, source) == source @@ target

\* getRequestDateRange: the dates of startAt and endAt, the time zone, and the
\* requested unit when getAllowedUnits lists it, else getMinimumUnit's.
GetRequestDateRange(q, unitAllowed) ==
  [startDate |-> q.startAt,
   endDate   |-> q.endAt,
   timezone  |-> q.timezone,
   unit      |-> IF unitAllowed THEN q.unit ELSE "minimum"]

\* getRequestFilters: the filter columns the query defines.
GetRequestFilters(q) ==
  LET given == { c \in FilterColumns : q.columns[c] # Undef }
  IN  [c \in given |-> q.columns[c]]

\* startDate set to resetAt without the comparison.
SetWebsiteDate_Overwrite(resetAt, data) ==
  IF resetAt # NoReset THEN [data EXCEPT !.startDate = resetAt] ELSE data

\* setWebsiteDate: with a resetAt, startDate becomes the later of the two.
SetWebsiteDate(resetAt, data) ==
  IF resetAt # NoReset
    THEN [data EXCEPT !.startDate = MaxDate(data.startDate, resetAt)]
    ELSE data

\* The cohort step's filter list: each stored filter renamed cohort_<name>,
\* then the action as an 'eq' filter.
CohortFilters(cohort) ==
  [i \in 1..Len(cohort.filters) |->
     [cohort.filters[i] EXCEPT !.name = "cohort_" \o cohort.filters[i].name]]
  \o <<[name |-> "cohort_" \o cohort.action.type, operator |-> "eq",
        value |-> cohort.action.value]>>

\* What the cohort step adds to the filters object.
CohortAssign(cohort) ==
  ObjectAssign(FiltersArrayToObject(CohortFilters(cohort)),
               ("cohort_startDate" :> Val("date", cohort.startDate))
                 @@ ("cohort_endDate" :> Val("date", cohort.endDate)))

\* The object getQueryFilters returns.
QueryFiltersResult(range, flt, q) ==
  ObjectAssign(
    ObjectAssign(
      ("startDate" :> Val("date", range.startDate))
        @@ ("endDate" :> Val("date", range.endDate))
        @@ ("timezone" :> Val(range.timezone, 0))
        @@ ("unit" :> Val(range.unit, 0)),
      flt),
    ("page" :> q.page) @@ ("pageSize" :> q.pageSize)
      @@ ("orderBy" :> q.orderBy) @@ ("sortDescending" :> q.sortDescending)
      @@ ("search" :> q.search) @@ ("compare" :> q.compare))

Filter(name, operator, value) ==
  [name |-> name, operator |-> operator, value |-> value]

\* Stored segment parameters; "missing" when getWebsiteSegment finds no row.
SegmentRows ==
  { [found |-> FALSE, filters |-> <<>>],
    [found |-> TRUE, filters |-> <<Filter("path", "eq", 1)>>],
    [found |-> TRUE, filters |-> <<Filter("country", "neq", 2)>>] }

\* Stored cohort parameters: filters, the action and the parsed date range.
CohortRows ==
  { [found |-> FALSE, filters |-> <<>>, action |-> [type |-> "path", value |-> 0],
     startDate |-> 0, endDate |-> 0],
    [found |-> TRUE, filters |-> <<Filter("country", "eq", 3)>>,
     action |-> [type |-> "path", value |-> 4], startDate |-> 0, endDate |-> 1],
    [found |-> TRUE, filters |-> <<Filter("path", "eq", 5)>>,
     action |-> [type |-> "path", value |-> 6], startDate |-> 0, endDate |-> 1],
    [found |-> TRUE, filters |-> <<>>,
     action |-> [type |-> "event", value |-> 7], startDate |-> 1, endDate |-> 1] }

\* The values a filter column takes in the query: left out, or given.
ColumnValues == {Undef, Val("raw", 8)}

NoParams ==
  [startAt |-> 0, endAt |-> 0, unit |-> "day", timezone |-> "utc",
   columns |-> [c \in FilterColumns |-> Undef], segment |-> "", cohort |-> "",
   page |-> Undef, pageSize |-> Undef, orderBy |-> Undef,
   sortDescending |-> Undef, search |-> Undef, compare |-> Undef]

NoRange == [startDate |-> 0, endDate |-> 0, timezone |-> "utc", unit |-> "day"]

InitFilters ==
  /\ qpc = "idle"
  /\ params = NoParams
  /\ websiteId = ""
  /\ db = [resetAt |-> NoReset, segment |-> CHOOSE r \in SegmentRows : ~r.found,
           cohort |-> CHOOSE r \in CohortRows : ~r.found]
  /\ range0 = NoRange
  /\ dateRange = NoRange
  /\ filters = <<>>
  /\ segCalls = <<>>
  /\ out = <<>>

\* The step after the website date: segment, cohort, or the return.
AfterWebsite(q) ==
  IF q.segment # "" THEN "segment" ELSE IF q.cohort # "" THEN "cohort" ELSE "return"

\* getQueryFilters up to its first await.
QueryFiltersCall ==
  /\ qpc = "idle"
  /\ \E s \in Times, e \in Times, cols \in [FilterColumns -> ColumnValues],
        sg \in {"", "s1"}, ch \in {"", "c1"}, paged \in BOOLEAN :
       params' = [NoParams EXCEPT !.startAt = s, !.endAt = e, !.columns = cols,
                                  !.segment = sg, !.cohort = ch,
                                  !.page = IF paged THEN Val("param", 1) ELSE Undef,
                                  !.pageSize = IF paged THEN Val("param", 9) ELSE Undef]
  /\ websiteId' \in {"", "w1"}
  /\ \E r \in {NoReset} \cup Times, sr \in SegmentRows, cr \in CohortRows :
       db' = [resetAt |-> r, segment |-> sr, cohort |-> cr]
  /\ \E unitAllowed \in BOOLEAN :
       /\ range0' = GetRequestDateRange(params', unitAllowed)
       /\ dateRange' = range0'
  /\ filters' = GetRequestFilters(params')
  /\ qpc' = IF websiteId' # "" THEN "website" ELSE "return"
  /\ UNCHANGED <<segCalls, out>>
  /\ UNCHANGED <<reqVars, logVars>>

\* await setWebsiteDate(websiteId, dateRange)
WebsiteDate ==
  /\ qpc = "website"
  /\ dateRange' = SetWebsiteDate(db.resetAt, dateRange)
  /\ qpc' = AfterWebsite(params)
  /\ UNCHANGED <<params, websiteId, db, range0, filters, segCalls, out>>
  /\ UNCHANGED <<reqVars, logVars>>

\* if (params.segment): the stored filters are assigned over the query's.
\* Without a row, reading .filters of undefined throws.
ExpandSegment ==
  /\ qpc = "segment"
  /\ segCalls' = Append(segCalls, params.segment)
  /\ IF db.segment.found
       THEN /\ filters' = ObjectAssign(filters, FiltersArrayToObject(db.segment.filters))
            /\ qpc' = IF params.cohort # "" THEN "cohort" ELSE "return"
       ELSE /\ filters' = filters
            /\ qpc' = "rejected"
  /\ UNCHANGED <<params, websiteId, db, range0, dateRange, out>>
  /\ UNCHANGED <<reqVars, logVars>>

\* if (params.cohort)
ExpandCohort ==
  /\ qpc = "cohort"
  /\ segCalls' = Append(segCalls, params.cohort)
  /\ IF db.cohort.found
       THEN /\ filters' = ObjectAssign(filters, CohortAssign(db.cohort))
            /\ qpc' = "return"
       ELSE /\ filters' = filters
            /\ qpc' = "rejected"
  /\ UNCHANGED <<params, websiteId, db, range0, dateRange, out>>
  /\ UNCHANGED <<reqVars, logVars>>

ReturnFilters ==
  /\ qpc = "return"
  /\ out' = QueryFiltersResult(dateRange, filters, params)
  /\ qpc' = "done"
  /\ UNCHANGED <<params, websiteId, db, range0, dateRange, filters, segCalls>>
  /\ UNCHANGED <<reqVars, logVars>>

NextFilters ==
  \/ QueryFiltersCall
  \/ WebsiteDate
  \/ ExpandSegment
  \/ ExpandCohort
  \/ ReturnFilters

(***************************************************************************)
(* Specifications: one per part of the program                             *)
(***************************************************************************)

\* The start of a run: no call made yet, the logger module loaded.
Init == InitRequest /\ InitLogger /\ InitFilters

SpecRequest == Init /\ [][NextRequest]_vars

\* The logger and getQueryFilters do not depend on the revision.
InitScf == Init /\ variant = "scf"

SpecLogger == InitScf /\ [][NextLogger]_vars

SpecFilters == InitScf /\ [][NextFilters]_vars

(***************************************************************************)
(* Properties of getJsonBody and parseRequest (SpecRequest)                *)
(***************************************************************************)

\* getJsonBody has returned to parseRequest.
BodyReturned == pc \in {"schema", "auth", "return", "done", "rejected"}

\* The positions of the events of one kind.
EventsOf(on, op) ==
  { i \in DOMAIN events : events[i].on = on /\ events[i].op = op }

Happened(on, op, res) ==
  \E i \in EventsOf(on, op) : events[i].res = res

\* The reads of a body: text() on either request and json() on the original.
Reads == { i \in DOMAIN events : events[i].op \in {"text", "json"} }

\* C1: getJsonBody never rejects.  Whatever clone(), text(), json(), the header
\* iteration, the base64 decoding and JSON.parse do, no error leaves
\* getJsonBody, and what it returns is undefined or a parsed JSON value.
C1_NeverRejects ==
  /\ pc # "bodyRejected"
  /\ BodyReturned => body.result.kind \in {"undefined", "value"}
  /\ (BodyReturned /\ body.result.kind = "value") =>
       \/ body.result.val \in JsonReturns
       \/ \E t \in {text, Base64Decode(text), Base64Decode(Base64Decode(text))} :
            body.result = JsonParse(t)

\* C1 witness: clone(), text() and json() all threw, and getJsonBody returned
\* undefined.
C1_Witness ==
  /\ BodyReturned
  /\ Happened("orig", "clone", "throws")
  /\ Happened("orig", "text", "throws")
  /\ Happened("orig", "json", "throws")
  /\ body.result = Undefined

\* The platform of the bug report: every text() gives the empty string and
\* json() throws, though the client sent a body.
PlatformDrained ==
  /\ ~hdr.throws
  /\ \A i \in Reads : events[i].res = (IF events[i].op = "text" THEN "empty" ELSE "throws")
  /\ Reads # {}

\* C2: on the platform of the bug report (text() on the request and on its
\* clone gives '', json() throws) getJsonBody of part_001 still returns the
\* parsed JSON body the client sent.
C2_DrainedBodyRecovered ==
  (variant = "scf" /\ BodyReturned /\ PlatformDrained /\ JsonValid(wire))
    => body.result = JsonParse(wire)

\* The checkAuth calls made.
AuthCalls == { i \in DOMAIN events : events[i].op = "checkAuth" }

\* C3: checkAuth is called at most once, after the body was read and after
\* the schema validation, and only when skipAuth is not set and validation
\* did not fail; when validation failed or skipAuth is true it is never
\* called and the auth returned is null.
C3_CheckAuthOnceAfterValidation ==
  /\ Cardinality(AuthCalls) <= 1
  /\ ~BodyReturned => AuthCalls = {}
  /\ pc = "schema" => AuthCalls = {}
  /\ \A i \in AuthCalls :
       /\ \A j \in DOMAIN events : j # i => j < i
       /\ skipAuth # "true"
       /\ valid # "no"
       /\ schema => (valid = "yes" /\ EventsOf("schema", "safeParse") # {})
  /\ (valid = "no" \/ skipAuth = "true") => (AuthCalls = {} /\ auth = "null")
  /\ pc = "auth" => (skipAuth # "true" /\ valid # "no")

\* C3 witness: a call with a schema that validated, where checkAuth ran.
C3_Witness ==
  /\ pc = "done"
  /\ schema /\ valid = "yes"
  /\ AuthCalls # {}

\* C4: the error returned is absent exactly when (no schema, or validation
\* succeeded) and (skipAuth, or checkAuth gave a truthy value); it is
\* badRequest exactly when validation failed and unauthorized exactly when
\* validation did not fail and checkAuth gave a falsy value; so a result
\* with no error and skipAuth unset has a non-null auth.
C4_ErrorMatchesOutcome ==
  pc = "done" =>
    /\ error = "none" <=>
         /\ (~schema \/ valid = "yes")
         /\ (skipAuth = "true" \/ Happened("auth", "checkAuth", "session"))
    /\ error = "badRequest" <=> valid = "no"
    /\ error = "unauthorized" <=>
         (valid # "no" /\ Happened("auth", "checkAuth", "null"))
    /\ (error = "none" /\ skipAuth # "true") => auth # "null"

\* C4 witness: validation passed and checkAuth gave null: unauthorized.
C4_Witness ==
  /\ pc = "done"
  /\ valid = "yes"
  /\ error = "unauthorized"

\* The clone gave a text that is not empty.
CloneGaveText == Happened("clone", "text", "body")

\* C8: the body is read from the clone first; the original request is read
\* only when clone() threw, or after the clone's text() threw or gave the
\* empty string; and when the clone gives a non-empty text the original's
\* body is never read (bodyUsed stays false).
C8_CloneThenRead ==
  /\ \A i \in Reads :
       (\A j \in Reads : i <= j) =>
         events[i].on = (IF Happened("orig", "clone", "ok") THEN "clone" ELSE "orig")
  /\ \A i \in Reads :
       events[i].on = "orig" =>
         \/ Happened("orig", "clone", "throws")
         \/ \E j \in EventsOf("clone", "text") :
              j < i /\ events[j].res \in {"throws", "empty"}
  /\ bodyUsed <=> (\E i \in Reads : events[i].on = "orig")
  /\ CloneGaveText => ~bodyUsed

\* C8 witness: part_001 returned a body read from the clone, the original
\* untouched.
C8_Witness ==
  /\ variant = "scf"
  /\ pc = "done"
  /\ CloneGaveText
  /\ body.result.kind = "value"
  /\ ~bodyUsed

\* C9: in part_001, with the header 'true' or 'TRUE' a non-empty text is
\* decoded once and the decoded text is what JSON.parse gets; without the
\* header a text that is valid JSON is parsed as it is, with no decoding; when
\* JSON.parse fails, the base64 decoding of the text is returned only if,
\* trimmed, it starts with { or [ and parses, and undefined otherwise.  So a
\* base64-encoded JSON object or array comes back as the same value with and
\* without the header.
C9_Base64Detection ==
  (variant = "scf" /\ BodyReturned /\ text # <<>>) =>
    /\ IsBase64Header(hdr.b64) =>
         /\ body.parsed = Base64Decode(text)
         /\ body.decodes = (IF JsonValid(body.parsed) THEN 1 ELSE 2)
    /\ (~IsBase64Header(hdr.b64) /\ JsonValid(text)) =>
         /\ body.result = JsonParse(text)
         /\ body.decodes = 0
    /\ ~JsonValid(body.parsed) =>
         LET decoded == Base64Decode(body.parsed)
             first   == At(decoded, SkipTrimWs(decoded, 1))
         IN  body.result = IF first \in {123, 91} /\ JsonValid(decoded)
                             THEN JsonParse(decoded)
                             ELSE Undefined
    /\ \A j \in JsonContainers :
         (text = Base64Encode(j) /\ hdr.b64 \in {"absent", "true", "TRUE"})
           => body.result = JsonParse(j)

\* C9 witness: the encoded array " [1]" sent without the header came back as
\* the array.
C9_Witness ==
  /\ variant = "scf"
  /\ BodyReturned
  /\ hdr.b64 = "absent"
  /\ text = Base64Encode(<<32, 91, 49, 93>>)
  /\ body.result = JsonValue(<<91, 49, 93>>)

(***************************************************************************)
(* Properties of the webhook logger (SpecLogger)                           *)
(***************************************************************************)

\* The requests made on behalf of one origin.
PostsOf(origin) ==
  { j \in DOMAIN trail : trail[j].kind = "post" /\ trail[j].origin = origin }

\* The lines the original console methods printed for application calls.
ConsoleLines ==
  { i \in DOMAIN trail :
      /\ trail[i].kind = "print"
      /\ trail[i].level \in PatchedLevels
      /\ trail[i].args \in ConsoleArgs }

\* C5 as stated: every line written to the console, the logger's and the
\* exception handlers' own lines included, is followed by exactly one POST
\* with the same arguments and the level of the console method used.
C5_AllOutputForwarded ==
  \A i \in DOMAIN trail :
    trail[i].kind = "print" =>
      Cardinality({ j \in DOMAIN trail :
                      /\ j > i
                      /\ trail[j] = Posted(trail[i].level, trail[i].args,
                                           trail[i].origin) }) = 1

\* C5 amended: each call of a patched console method prints through the
\* original method and then makes exactly one POST with the same level and
\* arguments, unless preparing the payload or calling fetch throws, when it
\* makes none and writes one line to stdout.  The logger's own lines are not
\* forwarded, and the handlers post the error alone, as level
\* uncaughtException or unhandledRejection.
C5_ConsoleCallsForwarded ==
  /\ \A i \in ConsoleLines :
       LET l == trail[i]
           next == trail[i + 1]
       IN  /\ i < Len(trail)
           /\ PostsOf(l.origin) \subseteq {i + 1}
           /\ \/ next = Posted(l.level, l.args, l.origin)
              \/ next = Printed("stdout", "prepare-failed", l.origin)
           /\ PrepareThrows(l.args) => PostsOf(l.origin) = {}
  /\ \A j \in DOMAIN trail :
       trail[j].kind = "post" =>
         \/ j - 1 \in ConsoleLines /\ trail[j - 1].origin = trail[j].origin
         \/ /\ trail[j].level \in {"uncaughtException", "unhandledRejection"}
            /\ trail[j].args \in {"err", "reason"}
            /\ trail[j - 1].kind = "print" /\ trail[j - 1].level = "error"

\* C5 witness: console.warn with an object was printed and then posted as
\* level warn, and a call with arguments that cannot be prepared was printed
\* and not posted.
C5_Witness ==
  /\ \E i \in ConsoleLines :
       /\ trail[i].level = "warn"
       /\ trail[i + 1] = Posted("warn", "object", trail[i].origin)
  /\ \E i \in ConsoleLines :
       /\ trail[i].args = "hostile"
       /\ PostsOf(trail[i].origin) = {}

\* The sendToWebhook calls made for one origin: each leaves a request or a
\* prepare-failed line.
SendsOf(origin) ==
  { j \in DOMAIN trail :
      /\ trail[j].origin = origin
      /\ \/ trail[j].kind = "post"
         \/ trail[j] = Printed("stdout", "prepare-failed", origin) }

\* C6: a failure to prepare or to send a log never leads to another
\* sendToWebhook call, never throws into the caller of the console method and
\* never leaves an unhandled rejection for the process handler; one console
\* call makes at most one request.
C6_NoLoggingLoop ==
  /\ ~escaped
  /\ \A i \in DOMAIN rejections : rejections[i] = 0
  /\ \A o \in 1..calls :
       /\ Cardinality(SendsOf(o)) = 1
       /\ Cardinality(PostsOf(o)) <= 1

\* C6 witness: the request of one console call was rejected, the payload of
\* another could not be prepared, and every promise has settled.
C6_Witness ==
  /\ pending = {}
  /\ \E o \in 1..calls : \E j \in DOMAIN trail :
       trail[j] = Printed("stdout", "send-failed", o)
  /\ \E o \in 1..calls : \E j \in DOMAIN trail :
       trail[j] = Printed("stdout", "prepare-failed", o)

(***************************************************************************)
(* Properties of getQueryFilters (SpecFilters)                             *)
(***************************************************************************)

\* The filters object holds this filter under this key.
Holds(key, f) == key \in DOMAIN filters /\ filters[key] = Val(f.operator, f.value)

\* C7 as stated: getWebsiteSegment is called only for a truthy segment or
\* cohort parameter of a call with a websiteId, and else the filters are
\* getRequestFilters(params); after a cohort expansion each stored cohort
\* filter is in the result under cohort_<name>, with the 'eq' filter
\* cohort_<action.type> holding action.value and the keys cohort_startDate and
\* cohort_endDate; the order is website date, segment, cohort, and a later
\* step's key replaces an earlier one.
C7_CohortFiltersKept ==
  /\ \A i \in DOMAIN segCalls :
       /\ websiteId # ""
       /\ segCalls[i] \in {params.segment, params.cohort} \ {""}
       /\ (segCalls[i] = params.cohort /\ params.segment # "") => i = 2
  /\ (qpc = "done" /\ segCalls = <<>>) => filters = GetRequestFilters(params)
  /\ (qpc = "done" /\ "s1" \in {segCalls[i] : i \in DOMAIN segCalls}) =>
       \A i \in DOMAIN db.segment.filters :
         \E k \in i..Len(db.segment.filters) :
           /\ db.segment.filters[k].name = db.segment.filters[i].name
           /\ Holds(db.segment.filters[k].name, db.segment.filters[k])
  /\ (qpc = "done" /\ "c1" \in {segCalls[i] : i \in DOMAIN segCalls}) =>
       /\ \A i \in DOMAIN db.cohort.filters :
            Holds("cohort_" \o db.cohort.filters[i].name, db.cohort.filters[i])
       /\ Holds("cohort_" \o db.cohort.action.type,
                Filter("", "eq", db.cohort.action.value))
       /\ {"cohort_startDate", "cohort_endDate"} \subseteq DOMAIN filters
       /\ filters["cohort_startDate"] = Val("date", db.cohort.startDate)
       /\ filters["cohort_endDate"] = Val("date", db.cohort.endDate)
  /\ qpc = "done" =>
       \A k \in DOMAIN filters : k \in DOMAIN out /\ out[k] = filters[k]

\* The requested range is in order.
RequestedInOrder == params.startAt <= params.endAt

\* C10 as stated: after getQueryFilters with a websiteId the range returned
\* has startDate <= endDate whenever the requested range had.
C10_RangeStaysOrdered ==
  (qpc = "done" /\ websiteId # "" /\ RequestedInOrder)
    => out["startDate"].v <= out["endDate"].v

\* C10 amended: setWebsiteDate moves only the start: with a resetAt the
\* startDate is the later of the requested start and resetAt, else it is
\* unchanged; endDate, unit and timezone stay as getRequestDateRange gave
\* them; and the range returned has startDate <= endDate whenever the
\* requested range had and resetAt, if any, is not after the requested end.
C10_StartClampedOnly ==
  (qpc \in {"segment", "cohort", "return", "done", "rejected"} /\ websiteId # "") =>
    /\ dateRange.startDate =
         (IF db.resetAt = NoReset \/ db.resetAt <= params.startAt
            THEN params.startAt ELSE db.resetAt)
    /\ db.resetAt # NoReset => dateRange.startDate >= db.resetAt
    /\ dateRange.endDate = params.endAt
    /\ dateRange.unit = range0.unit
    /\ dateRange.timezone = range0.timezone
    /\ (qpc = "done" /\ RequestedInOrder
          /\ (db.resetAt = NoReset \/ db.resetAt <= params.endAt))
         => /\ out["startDate"] = Val("date", dateRange.startDate)
            /\ out["endDate"] = Val("date", params.endAt)
            /\ out["startDate"].v <= out["endDate"].v

\* C10 witness: a website reset between the requested start and end: the
\* range returned starts at resetAt.
C10_Witness ==
  /\ qpc = "done"
  /\ websiteId # ""
  /\ db.resetAt # NoReset
  /\ params.startAt < db.resetAt
  /\ db.resetAt <= params.endAt
  /\ out["startDate"].v = db.resetAt

====
